---- MODULE Spec2Model ----
(***************************************************************************)
(* The caching writer of broccoli-compile-modules (src/index.js, 1-179):   *)
(* the CompileModules constructor with its four setters, and write(), the  *)
(* build pass that fingerprints every input file, replays unchanged files  *)
(* from this.cache, hands the others to the es6-module-transpiler          *)
(* container, and reads the written outputs back into the cache.           *)
(*                                                                         *)
(* Paths are sequences of segments (<<"out", "a.js">> is out/a.js), so     *)
(* path.join is concatenation.  File contents are small tagged tuples.     *)
(* The source tree, the transpiler and the glob helper are the program's   *)
(* environment: the source tree changes at any moment (also in the middle  *)
(* of a pass), the transpiler may throw, and it may write no standalone    *)
(* file for a module it was given.                                         *)
(***************************************************************************)
EXTENDS Integers, Sequences, FiniteSets, TLC

VARIABLES
    stage,      \* the CompileModules instance (its configuration), or NoStage
    ctor,       \* the last constructor call: its options and what it threw
    cache,      \* this.cache: identity path -> [hash, content]
    exists,     \* source tree: which files exist
    stat,       \* source tree: the fingerprint helpers.hashStats gives
    body,       \* source tree: the source text (a version number)
    dest,       \* destDir: path -> bytes
    pc,         \* position of write(): idle, plan, invoke, reconcile
    inputList,  \* inputFiles of the running pass (multiGlob over srcDir)
    i,          \* loop index of the running pass (1-based)
    container,  \* modules registered with container.getModule in this pass
    result,     \* how the last pass ended ("none" before any pass)
    hist,       \* bookkeeping about this pass and the previous one
    used        \* how many passes and source changes have happened

vars == <<stage, ctor, cache, exists, stat, body, dest, pc, inputList, i,
          container, result, hist, used>>

-----------------------------------------------------------------------------
(* Bounds *)

MaxStat == 1
MaxBody == 1
MaxChanges == 1
MaxPasses == 2

Files == {"a.js", "b.js"}
Stats == 0..MaxStat
Bodies == 0..MaxBody

-----------------------------------------------------------------------------
(* Values *)

Absent == <<"absent", 0>>
StrUndefined == <<"text", 0>>
Compile(b) == <<"compiled", b>>

Id(f) == <<f>>
AllPaths == <<  <<"a.js">>, <<"b.js">>, <<"out", "a.js">>, <<"out", "b.js">> >>

NoStage == [live |-> FALSE, inputTree |-> "unset", inputFiles |-> <<>>,
            output |-> <<>>, formatter |-> "unset", cache |-> "unset"]


-----------------------------------------------------------------------------
(* The constructor and its setters.  A JavaScript value is [t, v]: t is its *)
(* typeof, v names it.  A setter gives [threw, this].                       *)

JsUndefined == [t |-> "undefined", v |-> "undefined"]
JsNull == [t |-> "object", v |-> "null"]
JsString(s) == [t |-> "string", v |-> s]

Falsy(x) == x = JsUndefined \/ x = JsNull \/ x = JsString("")

setInputTree(this, inputTree) ==
    IF inputTree = "undefined" \/ inputTree = "null"
    THEN [threw |-> "Error:inputTree", this |-> this]
    ELSE [threw |-> "none", this |-> [this EXCEPT !.inputTree = inputTree]]

setInputFiles(this, inputFiles) ==
    IF ~inputFiles.isArray
    THEN [threw |-> "Error:inputFiles", this |-> this]
    ELSE [threw |-> "none", this |-> [this EXCEPT !.inputFiles = inputFiles.v]]

\* helpers.assertAbsolutePaths([output]): the first character must be "/".
setOutput(this, output) ==
    IF Len(output) = 0 \/ output[1] # "/"
    THEN [threw |-> "Error:output", this |-> this]
    ELSE [threw |-> "none", this |-> [this EXCEPT !.output = output]]

\* formatters[name] of es6-module-transpiler: DEFAULT is the string 'bundle',
\* bundle and commonjs are constructors; the export object is a plain object,
\* so the name "constructor" finds Object on its prototype.
formatters(name) ==
    CASE name \in {"bundle", "commonjs"} -> [t |-> "function", v |-> name]
      [] name = "DEFAULT" -> JsString("bundle")
      [] name = "constructor" -> [t |-> "function", v |-> "Object"]
      [] OTHER -> JsUndefined

BuiltInFormatters == {"bundle", "commonjs"}

setFormatter(this, formatter) ==
    LET f1 == IF Falsy(formatter) THEN formatters("DEFAULT") ELSE formatter
        looked == formatters(f1.v)
        f2 == IF f1.t = "string" THEN [t |-> "object", v |-> looked.v] ELSE f1
    IN  IF f1.t = "string" /\ looked.t # "function"
        THEN [threw |-> "Error:formatterName", this |-> this]
        ELSE IF f2.t # "object"
        THEN [threw |-> "Error:formatterObject", this |-> this]
        ELSE [threw |-> "none", this |-> [this EXCEPT !.formatter = f2.v]]

\* function CompileModules(inputTree, options): the first setter that throws
\* ends the constructor; this.cache = {} is its last statement.
CompileModules(o) ==
    LET s1 == setInputTree([NoStage EXCEPT !.live = TRUE], o.inputTree)
        s2 == setInputFiles(s1.this, o.inputFiles)
        s3 == setOutput(s2.this, o.output)
        s4 == setFormatter(s3.this, o.formatter)
    IN  IF s1.threw # "none" THEN s1
        ELSE IF s2.threw # "none" THEN s2
        ELSE IF s3.threw # "none" THEN s3
        ELSE IF s4.threw # "none" THEN s4
        ELSE [threw |-> "none", this |-> [s4.this EXCEPT !.cache = "set"]]

\* compileModules(inputTree, options): new CompileModules(...).  A constructor
\* that throws leaves the caller without an instance.
compileModules(o) ==
    LET r == CompileModules(o)
    IN  [threw |-> r.threw, stage |-> IF r.threw = "none" THEN r.this ELSE NoStage]

InputTrees == {"undefined", "null", "tree"}
Globs == { <<"*.js">>, <<"**/*.js">> }
InputFilesValues ==
    {[isArray |-> TRUE, v |-> g] : g \in Globs} \cup {[isArray |-> FALSE, v |-> <<>>]}
AbsoluteOutputs == { <<"/">>, <<"/", "out">> }
OutputValues == AbsoluteOutputs \cup { <<"out">>, <<>> }
FormatterValues ==
    {JsUndefined, JsNull, [t |-> "object", v |-> "custom"],
     [t |-> "function", v |-> "fn"], [t |-> "number", v |-> "7"]}
    \cup {JsString(s) : s \in {"", "bundle", "commonjs", "amd", "DEFAULT", "constructor"}}
AllOptions ==
    [inputTree : InputTrees, inputFiles : InputFilesValues,
     output : OutputValues, formatter : FormatterValues]


-----------------------------------------------------------------------------
(* Globbing and paths *)

Range(q) == {q[k] : k \in 1..Len(q)}

\* minimatch on the paths of this model: "*.js" stays in the top directory,
\* "**/*.js" descends, any other pattern is a literal file name.
Match(pattern, p) ==
    CASE pattern = "*.js" -> Len(p) = 1
      [] pattern = "**/*.js" -> TRUE
      [] OTHER -> p = <<pattern>>

\* glob.sync(pattern): the matching paths of tree, sorted.
Matches(pattern, tree) ==
    SelectSeq(AllPaths, LAMBDA p : p \in tree /\ Match(pattern, p))

RECURSIVE GlobFrom(_, _, _, _)
GlobFrom(patterns, tree, k, acc) ==
    IF k > Len(patterns) THEN [threw |-> FALSE, paths |-> acc]
    ELSE LET m == Matches(patterns[k], tree)
         IN  IF Len(m) = 0 THEN [threw |-> TRUE, paths |-> <<>>]
             ELSE GlobFrom(patterns, tree, k + 1,
                           acc \o SelectSeq(m, LAMBDA p : p \notin Range(acc)))

\* helpers.multiGlob(globs, {cwd: ...}): the matches of every glob in turn,
\* without duplicates; a glob that matches nothing throws.
multiGlob(patterns, tree) == GlobFrom(patterns, tree, 1, <<>>)

\* path.join(destDir, this.output, filepath), relative to destDir.
outputPath == Tail(stage.output)
destPath(filepath) == outputPath \o filepath

srcTree == {Id(f) : f \in {g \in Files : exists[g]}}
destTree == DOMAIN dest
FileOf(filepath) == filepath[Len(filepath)]


-----------------------------------------------------------------------------
(* Bookkeeping.  hist remembers, for the pass that is running or has just   *)
(* ended: the cache it started from, how identities were classified, what   *)
(* was written; and for the pass before it: its list, result, destination.  *)
(* Two flags describe the whole run so far: pure (every earlier pass ended  *)
(* well, the transpiler wrote a file for every module it was given, and the *)
(* source tree never changed while a pass was running) and faithful (no     *)
(* change of the source tree left a file with the fingerprint stored in its *)
(* cache entry).                                                            *)

Empty == <<>>

NewHist(h, c, d, l, r) ==
    [cache0 |-> c, dest0 |-> d, list0 |-> l, result0 |-> r,
     recompute0 |-> h.recompute,
     recompute |-> {}, replay |-> {}, replayed |-> Empty, seen |-> Empty,
     produced |-> Empty, writeCalled |-> FALSE, reconcileRan |-> FALSE,
     failedAt |-> Empty, writeCalls |-> 0,
     calm |-> IF h.calm = 0 THEN 1 ELSE 2, built |-> h.built,
     pure |-> h.pure /\ r \in {"none", "ok"}, faithful |-> h.faithful]

InitHist ==
    [cache0 |-> Empty, dest0 |-> Empty, list0 |-> <<>>, result0 |-> "none",
     recompute0 |-> {},
     recompute |-> {}, replay |-> {}, replayed |-> Empty, seen |-> Empty,
     produced |-> Empty, writeCalled |-> FALSE, reconcileRan |-> FALSE,
     failedAt |-> Empty, writeCalls |-> 0,
     calm |-> 0, built |-> Empty, pure |-> TRUE, faithful |-> TRUE]

-----------------------------------------------------------------------------
(* The source tree changes under the program. *)

\* The file f is left with the fingerprint its cache entry holds.
Masked(f) == /\ exists'[f]
             /\ Id(f) \in DOMAIN cache
             /\ stat'[f] = cache[Id(f)].hash

Disturb(f) ==
    /\ used.changes < MaxChanges
    /\ used' = [used EXCEPT !.changes = @ + 1]
    /\ hist' = [hist EXCEPT !.calm = 0,
                            !.pure = @ /\ pc = "idle",
                            !.faithful = @ /\ ~Masked(f)]
    /\ UNCHANGED <<stage, ctor, cache, dest, pc, inputList, i, container, result>>

\* A file is edited or touched: its fingerprint (mode, size, mtime) or its
\* text changes.  An edit within the clock's resolution that keeps the size
\* keeps the fingerprint.
Edit(f) == /\ exists[f]
           /\ \E s \in Stats, b \in Bodies :
                /\ <<s, b>> # <<stat[f], body[f]>>
                /\ stat' = [stat EXCEPT ![f] = s]
                /\ body' = [body EXCEPT ![f] = b]
           /\ UNCHANGED exists
           /\ Disturb(f)

Remove(f) == /\ exists[f]
             /\ exists' = [exists EXCEPT ![f] = FALSE]
             /\ stat' = [stat EXCEPT ![f] = 0]
             /\ body' = [body EXCEPT ![f] = 0]
             /\ Disturb(f)

Create(f) == /\ ~exists[f]
             /\ exists' = [exists EXCEPT ![f] = TRUE]
             /\ \E s \in Stats, b \in Bodies :
                  /\ stat' = [stat EXCEPT ![f] = s]
                  /\ body' = [body EXCEPT ![f] = b]
             /\ Disturb(f)

-----------------------------------------------------------------------------
(* write(readTree, destDir): one build pass *)

Abort(error) == /\ pc' = "idle"
                /\ result' = error

\* readTree(...).then: a new container, and the input files of this pass.  The
\* host (broccoli-writer) hands every pass an empty destDir.
BeginPass ==
    /\ pc = "idle"
    /\ stage.live
    /\ used.passes < MaxPasses
    /\ used' = [used EXCEPT !.passes = @ + 1]
    /\ LET g == multiGlob(stage.inputFiles, srcTree)
       IN  /\ inputList' = g.paths
           /\ IF g.threw THEN Abort("GlobError")
              ELSE /\ pc' = IF Len(g.paths) = 0 THEN "invoke" ELSE "plan"
                   /\ result' = "running"
    /\ i' = 1
    /\ container' = {}
    /\ dest' = Empty
    /\ hist' = NewHist(hist, cache, dest, inputList, result)
    /\ UNCHANGED <<stage, ctor, cache, exists, stat, body>>

filepath == inputList[i]
InLoop == pc = "plan" /\ i <= Len(inputList)

\* A variant of Advance that leaves the loop after one turn.
Advance_Early == /\ i' = i + 1
                 /\ pc' = "invoke"
                 /\ UNCHANGED result

Advance == /\ i' = i + 1
           /\ pc' = IF i + 1 > Len(inputList) THEN "invoke" ELSE "plan"
           /\ UNCHANGED result

\* A variant of StatFails that has created the entry before the stat throws.
StatFails_EntryFirst ==
    /\ InLoop
    /\ ~exists[FileOf(filepath)]
    /\ Abort("StatENOENT")
    /\ cache' = (filepath :> [hash |-> 0, content |-> Absent]) @@ cache
    /\ hist' = [hist EXCEPT !.failedAt = (filepath :> i)]
    /\ UNCHANGED <<i, dest, container>>
    /\ UNCHANGED <<stage, ctor, exists, stat, body, inputList, used>>

\* fs.statSync(path.join(srcDir, filepath)) throws: the file is gone.
StatFails ==
    /\ InLoop
    /\ ~exists[FileOf(filepath)]
    /\ Abort("StatENOENT")
    /\ hist' = [hist EXCEPT !.failedAt = (filepath :> i)]
    /\ UNCHANGED <<i, cache, dest, container>>
    /\ UNCHANGED <<stage, ctor, exists, stat, body, inputList, used>>

\* A variant of hash computed from the path alone.
hash_OfPath == Len(filepath) - 1

\* var hash = helpers.hashStats(stat, filepath)
hash == stat[FileOf(filepath)]

\* cache.hash === hash: the cached content is written to the destination.
\* fs.writeFileSync of an undefined content writes the text "undefined" on
\* the Node versions of the package's time and throws a TypeError on later ones.
ReplayWrite(content) ==
    \/ /\ content # Absent
       /\ dest' = (destPath(filepath) :> content) @@ dest
       /\ hist' = [hist EXCEPT !.replay = @ \cup {filepath},
                               !.seen = (filepath :> hash) @@ @,
                               !.replayed = (filepath :> content) @@ @]
       /\ Advance
    \/ /\ content = Absent
       /\ dest' = (destPath(filepath) :> StrUndefined) @@ dest
       /\ hist' = [hist EXCEPT !.replay = @ \cup {filepath},
                               !.seen = (filepath :> hash) @@ @,
                               !.replayed = (filepath :> StrUndefined) @@ @]
       /\ Advance
    \/ /\ content = Absent
       /\ dest' = dest
       /\ hist' = [hist EXCEPT !.replay = @ \cup {filepath},
                               !.seen = (filepath :> hash) @@ @]
       /\ Abort("WriteTypeError")
       /\ UNCHANGED i

\* A variant of GetModule that registers with a container made anew each turn.
GetModule_Forgets ==
    \/ /\ container' = {filepath}
       /\ Advance
    \/ /\ container' = container
       /\ Abort("TransformError")
       /\ UNCHANGED i

\* container.getModule(filepath): the module is registered, or the
\* transpiler throws.
GetModule ==
    \/ /\ container' = container \cup {filepath}
       /\ Advance
    \/ /\ container' = container
       /\ Abort("TransformError")
       /\ UNCHANGED i

\* Variants of the three definitions below with a slip in them, used to see
\* that the properties at the end of the module depend on the code.
Unchanged_Never(entry, h) == FALSE
Unchanged_Always(entry, h) == TRUE
UpdateHash_Reset(entry, h) == [hash |-> h, content |-> Absent]
NewEntry_WithContent(h) == [hash |-> h, content |-> StrUndefined]
UpdateHash_Keeps(entry, h) == entry

\* cache.hash === hash
Unchanged(entry, h) == entry.hash = h

\* this.cache[filepath].hash = hash: the content stays.
UpdateHash(entry, h) == [entry EXCEPT !.hash = h]

\* this.cache[filepath] = { hash: hash }
NewEntry(h) == [hash |-> h, content |-> Absent]

\* One turn of the for loop over inputFiles.
PlanStep ==
    /\ InLoop
    /\ exists[FileOf(filepath)]
    /\ IF filepath \in DOMAIN cache
       THEN IF Unchanged(cache[filepath], hash)
            THEN /\ ReplayWrite(cache[filepath].content)
                 /\ UNCHANGED <<cache, container>>
            ELSE /\ cache' = [cache EXCEPT ![filepath] = UpdateHash(@, hash)]
                 /\ hist' = [hist EXCEPT !.recompute = @ \cup {filepath},
                                         !.seen = (filepath :> hash) @@ @]
                 /\ GetModule
                 /\ UNCHANGED dest
       ELSE /\ cache' = (filepath :> NewEntry(hash)) @@ cache
            /\ hist' = [hist EXCEPT !.recompute = @ \cup {filepath},
                                    !.seen = (filepath :> hash) @@ @]
            /\ GetModule
            /\ UNCHANGED dest
    /\ UNCHANGED <<stage, ctor, exists, stat, body, inputList, used>>


\* What the transpiler writes for a registered module: the compiled text of
\* the file as it is now.
Transform(fp) == Compile(body[FileOf(fp)])

\* The destination after container.write wrote the modules of W.
Written(W, d) ==
    [p \in DOMAIN d \cup {destPath(fp) : fp \in W} |->
        IF \E fp \in W : destPath(fp) = p
        THEN Transform(CHOOSE fp \in W : destPath(fp) = p)
        ELSE d[p]]

\* container.write(outputPath): the transpiler throws, or it writes the
\* registered modules under the output path; a formatter may write no
\* standalone file for some of them.
InvokeStep ==
    /\ pc = "invoke"
    /\ \/ /\ Abort("TransformError")
          /\ hist' = [hist EXCEPT !.writeCalled = TRUE, !.writeCalls = @ + 1]
          /\ UNCHANGED dest
       \/ /\ \A fp \in container : exists[FileOf(fp)]
          /\ \E W \in SUBSET container :
               /\ dest' = Written(W, dest)
               /\ hist' = [hist EXCEPT !.writeCalled = TRUE, !.writeCalls = @ + 1,
                                       !.produced = [fp \in W |-> Transform(fp)],
                                       !.pure = @ /\ W = container]
          /\ pc' = "reconcile"
          /\ UNCHANGED result
    /\ UNCHANGED <<stage, ctor, cache, exists, stat, body, inputList, i,
                   container, used>>

\* A variant of ReadBack that reads nothing back.
ReadBack_KeepsContent(files, k, c, d) ==
    [cache |-> c, errors |-> {"ok"}, read |-> Len(files)]

\* A variant of ReadBack that drops the entries of files it did not find.
ReadBack_Prunes(files, k, c, d) ==
    [cache |-> [fp \in DOMAIN c \cap Range(files) |->
                  [c[fp] EXCEPT !.content = IF destPath(fp) \in DOMAIN d
                                            THEN d[destPath(fp)] ELSE @]],
     errors |-> {"ok"}, read |-> Len(files)]

\* outputFiles.forEach: this.cache[filepath].content = fs.readFileSync(
\* path.join(outputPath, filepath)), until one turn throws.  A path without a
\* cache entry is a TypeError; a path with no file under outputPath is ENOENT.

RECURSIVE ReadBack(_, _, _, _)
ReadBack(files, k, c, d) ==
    IF k > Len(files) THEN [cache |-> c, errors |-> {"ok"}, read |-> k - 1]
    ELSE LET fp == files[k]
             noEntry == fp \notin DOMAIN c
             noFile == destPath(fp) \notin DOMAIN d
         IN  IF noEntry \/ noFile
             THEN [cache |-> c,
                   errors |-> {e \in {"CacheTypeError", "ReadENOENT"} :
                                 \/ e = "CacheTypeError" /\ noEntry
                                 \/ e = "ReadENOENT" /\ noFile},
                   read |-> k - 1]
             ELSE ReadBack(files, k + 1,
                           [c EXCEPT ![fp].content = d[destPath(fp)]], d)

\* The bytes of identities that were built by the transpiler in this pass and
\* read back into the cache.
Built(h, files, n) ==
    LET done == {files[k] : k \in 1..n} \cap DOMAIN h.produced
    IN  [fp \in done \cup DOMAIN h.built |->
            IF fp \in done THEN h.produced[fp] ELSE h.built[fp]]

\* The end of write(): the output glob over destDir and the read-back.
ReconcileStep ==
    /\ pc = "reconcile"
    /\ LET g == multiGlob(stage.inputFiles, destTree)
           r == ReadBack(g.paths, 1, cache, dest)
       IN  IF g.threw
           THEN /\ Abort("GlobError")
                /\ UNCHANGED <<cache, hist>>
           ELSE /\ cache' = r.cache
                /\ hist' = [hist EXCEPT !.reconcileRan = TRUE,
                                        !.built = Built(hist, g.paths, r.read)]
                /\ pc' = "idle"
                /\ result' \in r.errors
    /\ UNCHANGED <<stage, ctor, exists, stat, body, dest, inputList, i,
                   container, used>>

\* The writer without the cache (the second write() of src/index.js): every
\* input file is registered and container.write writes them all.
uncachedWrite ==
    LET g == multiGlob(stage.inputFiles, srcTree)
    IN  [threw |-> g.threw, dest |-> Written(Range(g.paths), Empty)]

-----------------------------------------------------------------------------
(* Specifications *)

TypicalOptions ==
    [inputTree : {"tree"}, inputFiles : {[isArray |-> TRUE, v |-> g] : g \in Globs},
     output : AbsoluteOutputs, formatter : {JsUndefined}]

\* A variant of FreshCache: a cache that outlives the instance.
FreshCache_Shared ==
    (Id("a.js") :> [hash |-> 0, content |-> Compile(0)])

\* this.cache = {}
FreshCache == Empty

Quiet ==
    /\ dest = Empty /\ pc = "idle" /\ inputList = <<>> /\ i = 1
    /\ container = {} /\ result = "none" /\ hist = InitHist
    /\ used = [passes |-> 0, changes |-> 0]
    /\ cache = FreshCache

\* A stage right after compileModules(inputTree, options) returned it, over
\* some source tree.
Init ==
    /\ \E o \in TypicalOptions :
         /\ ctor = [options |-> o, threw |-> compileModules(o).threw]
         /\ stage = compileModules(o).stage
    /\ exists \in [Files -> BOOLEAN]
    /\ stat = [f \in Files |-> 0]
    /\ body = [f \in Files |-> 0]
    /\ Quiet

Next ==
    \/ \E f \in Files : Edit(f)
    \/ \E f \in Files : Remove(f)
    \/ \E f \in Files : Create(f)
    \/ BeginPass
    \/ StatFails
    \/ PlanStep
    \/ InvokeStep
    \/ ReconcileStep

Spec == Init /\ [][Next]_vars

\* compileModules(inputTree, options) called with any options.
Construct(o) ==
    /\ ctor' = [options |-> o, threw |-> compileModules(o).threw]
    /\ stage' = compileModules(o).stage
    /\ cache' = FreshCache
    /\ UNCHANGED <<exists, stat, body, dest, pc, inputList, i, container,
                   result, hist, used>>

NoCall == [inputTree |-> "undefined", inputFiles |-> [isArray |-> FALSE, v |-> <<>>],
           output |-> <<>>, formatter |-> JsUndefined]

InitConfig ==
    /\ ctor = [options |-> NoCall, threw |-> "not called"]
    /\ stage = NoStage
    /\ exists = [f \in Files |-> TRUE]
    /\ stat = [f \in Files |-> 0]
    /\ body = [f \in Files |-> 0]
    /\ Quiet

NextConfig == \E o \in AllOptions : Construct(o)

SpecConfig == InitConfig /\ [][NextConfig]_vars


-----------------------------------------------------------------------------
(* Properties *)

Listed == Range(inputList)
Fingerprinted == DOMAIN hist.seen
PassBegun == result # "none"
Succeeded == pc = "idle" /\ result = "ok"
PlanningDone == Len(inputList) > 0 /\ Fingerprinted = Listed
BytesAt(d, fp) == IF destPath(fp) \in DOMAIN d THEN d[destPath(fp)] ELSE Absent
SameAsBefore(fp) == fp \in DOMAIN hist.cache0 /\ hist.cache0[fp].hash = hist.seen[fp]
Differs(fp) == fp \in DOMAIN hist.cache0 /\ hist.cache0[fp].hash # hist.seen[fp]
AfterGoodPass == PassBegun /\ hist.result0 = "ok" /\ inputList = hist.list0

NewResult(fp) == IF fp \in DOMAIN hist.produced THEN hist.produced[fp] ELSE Absent

\* C2 (as stated): an identity with an entry whose fingerprint differs from
\* the stored one is recomputed, not replayed, and after a successful pass
\* the destination and the cached content hold the new transform result.
C2_Invalidation ==
    \A fp \in Fingerprinted :
      Differs(fp)
      => /\ fp \in hist.recompute /\ fp \notin hist.replay
         /\ Succeeded => /\ BytesAt(dest, fp) = NewResult(fp)
                         /\ cache[fp].content = NewResult(fp)

\* C2 (amended): an identity with an entry whose fingerprint differs from the
\* stored one is recomputed (registered with the transform unless that call
\* throws), not replayed; after a successful pass in which the transform wrote
\* an output file for it, the destination and the cached content hold that
\* output.
C2_InvalidationWhenOutput ==
    \A fp \in Fingerprinted :
      Differs(fp)
      => /\ fp \in hist.recompute /\ fp \notin hist.replay
         /\ fp \notin DOMAIN hist.replayed
         /\ fp \in container \/ result = "TransformError"
         /\ cache[fp].hash = hist.seen[fp]
         /\ (Succeeded /\ fp \in DOMAIN hist.produced)
            => /\ BytesAt(dest, fp) = hist.produced[fp]
               /\ cache[fp].content = hist.produced[fp]

C2_Witness ==
    /\ Succeeded
    /\ \E fp \in Fingerprinted :
         /\ Differs(fp) /\ fp \in DOMAIN hist.produced
         /\ hist.cache0[fp].content # Absent
         /\ hist.cache0[fp].content # hist.produced[fp]
         /\ cache[fp].content = hist.produced[fp]

\* C3: in the first pass of a new stage nothing is replayed and every
\* fingerprinted identity is recomputed; once planning is over the recompute
\* set is the whole input list; after the pass succeeded, every identity the
\* transform wrote a file for has that file's bytes as cached content.
C3_ColdStart ==
    (PassBegun /\ used.passes = 1)
    => /\ hist.replay = {} /\ hist.replayed = Empty
       /\ hist.recompute = Fingerprinted
       /\ (pc \in {"invoke", "reconcile"} \/ Succeeded) => hist.recompute = Listed
       /\ Succeeded => \A fp \in DOMAIN hist.produced :
                         /\ cache[fp].content = hist.produced[fp]
                         /\ cache[fp].content # Absent

C3_Witness ==
    /\ used.passes = 1 /\ Succeeded
    /\ Len(inputList) = 2
    /\ DOMAIN hist.produced = Listed
    /\ \A fp \in Listed : cache[fp].content = Transform(fp)

\* C4: whatever a pass replays for an identity is the bytes the transform
\* most recently produced for it and the read-back stored.
C4_ReplayFidelity ==
    \A fp \in DOMAIN hist.replayed :
      fp \in DOMAIN hist.built /\ hist.replayed[fp] = hist.built[fp]

ChangedSet == {fp \in Listed \cap Fingerprinted : Differs(fp)}

\* C5: after a successful pass, in the next pass over the same files, an
\* identity is recomputed exactly if its fingerprint differs from the stored
\* one and replayed exactly if it does not; once planning is over, the
\* recompute set is the set of changed identities and the replay set the rest.
C5_SelectiveInvalidation ==
    AfterGoodPass
    => /\ \A fp \in Fingerprinted :
            /\ fp \in hist.recompute <=> Differs(fp)
            /\ fp \in hist.replay <=> SameAsBefore(fp)
       /\ PlanningDone => /\ hist.recompute = ChangedSet
                          /\ hist.replay = Listed \ ChangedSet

C5_Witness ==
    /\ AfterGoodPass /\ PlanningDone
    /\ hist.recompute # {} /\ hist.replay # {}
    /\ hist.recompute = ChangedSet

NewIdentities == Fingerprinted \ DOMAIN hist.cache0

\* C6: an identity without an entry gets an entry with the fingerprint just
\* taken and no content (until the read-back of this pass), and is recomputed,
\* not replayed, whatever the entries of other identities hold.
C6_FirstAppearance ==
    \A fp \in NewIdentities :
      /\ fp \in hist.recompute /\ fp \notin hist.replay
      /\ fp \notin DOMAIN hist.replayed
      /\ fp \in DOMAIN cache /\ cache[fp].hash = hist.seen[fp]
      /\ ~hist.reconcileRan => cache[fp].content = Absent

C6_Witness ==
    \E fp \in NewIdentities : \E other \in DOMAIN hist.cache0 :
      /\ hist.cache0[other].hash = hist.seen[fp]
      /\ hist.cache0[other].content = Transform(fp)
      /\ fp \in hist.recompute /\ fp \in container

\* C7: in the pass after one that a transform error ended, with the source
\* tree untouched since before that pass began, every identity of the failed
\* pass's recompute set is recomputed again, not replayed.
C7_RecomputeAfterFailure ==
    (PassBegun /\ hist.result0 = "TransformError" /\ hist.calm = 2)
    => \A fp \in hist.recompute0 \cap Fingerprinted :
         fp \in hist.recompute /\ fp \notin hist.replay

\* C8: a pass that a transform error ended keeps the replay writes it made,
\* ran no read-back, left every entry's content as it was before the pass
\* (none for new entries), and holds the new fingerprint for every identity
\* it classified as recompute.
C8_AfterTransformError ==
    (pc = "idle" /\ result = "TransformError")
    => /\ ~hist.reconcileRan
       /\ \A fp \in DOMAIN hist.replayed : BytesAt(dest, fp) = hist.replayed[fp]
       /\ \A fp \in DOMAIN cache :
            cache[fp].content = IF fp \in DOMAIN hist.cache0
                                THEN hist.cache0[fp].content ELSE Absent
       /\ \A fp \in hist.recompute : cache[fp].hash = hist.seen[fp]
       /\ DOMAIN cache = DOMAIN hist.cache0 \cup hist.recompute

C8_Witness ==
    /\ pc = "idle" /\ result = "TransformError"
    /\ hist.replayed # Empty
    /\ \E fp \in hist.recompute :
         /\ Differs(fp)
         /\ cache[fp].content # Absent

Position(fp) == CHOOSE k \in 1..Len(inputList) : inputList[k] = fp

\* C9: a pass that ended because a file was missing at its stat left that
\* identity's entry as it was (or absent), kept the updated fingerprints of
\* the identities before it in the input order, left the identities after it
\* untouched, and ran neither the transform's write nor the read-back.
C9_MissingFile ==
    (pc = "idle" /\ result = "StatENOENT")
    => \A gone \in DOMAIN hist.failedAt :
         LET k == hist.failedAt[gone]
             Same(fp) == /\ fp \in DOMAIN cache <=> fp \in DOMAIN hist.cache0
                         /\ fp \in DOMAIN cache => cache[fp] = hist.cache0[fp]
         IN  /\ inputList[k] = gone
             /\ Same(gone)
             /\ \A j \in 1..(k - 1) :
                  /\ inputList[j] \in DOMAIN cache
                  /\ cache[inputList[j]].hash = hist.seen[inputList[j]]
             /\ \A j \in (k + 1)..Len(inputList) : Same(inputList[j])
             /\ ~hist.writeCalled /\ ~hist.reconcileRan
             /\ hist.produced = Empty

C9_Witness ==
    /\ pc = "idle" /\ result = "StatENOENT"
    /\ \E gone \in DOMAIN hist.failedAt :
         /\ hist.failedAt[gone] = 2
         /\ gone \notin DOMAIN cache
         /\ inputList[1] \in DOMAIN cache
         /\ inputList[1] \notin DOMAIN hist.cache0

Called == ctor.threw # "not called"
NamesNoFormatter(f) == f.t = "string" /\ f.v # "" /\ f.v \notin BuiltInFormatters
Omitted(f) == f = JsUndefined

\* C10: the constructor throws, and leaves no instance and no cache, when the
\* input tree is undefined or null, inputFiles is not an array, output is not
\* absolute, the formatter is a name that is no built-in formatter, or the
\* formatter is neither a name nor an object; with valid options and the
\* formatter omitted it succeeds with the default (bundle) formatter.
C10_ConfigErrors ==
    Called =>
      LET o == ctor.options
          bad == \/ o.inputTree \in {"undefined", "null"}
                 \/ ~o.inputFiles.isArray
                 \/ o.output \notin AbsoluteOutputs
                 \/ NamesNoFormatter(o.formatter)
                 \/ o.formatter.t \in {"function", "number"}
      IN  /\ bad => ctor.threw # "none" /\ stage = NoStage
          /\ (~bad /\ Omitted(o.formatter))
             => ctor.threw = "none" /\ stage.live /\ stage.formatter = "bundle"
                /\ stage.cache = "set"

\* C11: an identity whose entry has the current fingerprint but no content is
\* recomputed, not replayed; a replay write happens only for an entry with
\* content.
C11_NoContentlessReplay ==
    /\ \A fp \in Fingerprinted :
         (SameAsBefore(fp) /\ hist.cache0[fp].content = Absent)
         => fp \in hist.recompute /\ fp \notin hist.replay
    /\ \A fp \in DOMAIN hist.replayed : hist.cache0[fp].content # Absent

\* C12: no step removes a cache entry.
C12_CacheNeverShrinks == [][DOMAIN cache \subseteq DOMAIN cache']_vars

C12_Witness ==
    /\ Succeeded /\ used.passes = 2
    /\ \E fp \in DOMAIN cache : fp \notin Listed /\ ~exists[FileOf(fp)]

\* C13: the transform's write is called at most once in a pass, never while
\* planning, exactly once in a pass that went past planning; when it is
\* called every listed identity has been classified and the registered
\* modules are exactly the recompute set, none of them replayed.
C13_BulkInvocation ==
    /\ hist.writeCalls \in {0, 1}
    /\ pc = "plan" => hist.writeCalls = 0
    /\ pc = "invoke" => hist.writeCalls = 0
    /\ (pc = "reconcile" \/ (pc = "idle" /\ result \in {"ok", "CacheTypeError", "ReadENOENT"}))
       => hist.writeCalls = 1
    /\ (pc = "invoke" \/ hist.writeCalls = 1)
       => /\ Fingerprinted = Listed
          /\ container = hist.recompute
          /\ container \cap hist.replay = {}
          /\ hist.recompute \cup hist.replay = Listed
          /\ DOMAIN hist.produced \subseteq hist.recompute

C13_Witness ==
    /\ pc = "reconcile" /\ hist.writeCalls = 1
    /\ Cardinality(container) = 2
    /\ container = hist.recompute

\* C14 (as stated): no replay write happens before every identity has been
\* planned; the transform's write comes after planning, the read-back after
\* the transform's write.
C14_StrictPhases ==
    /\ DOMAIN hist.replayed # {} => Fingerprinted = Listed
    /\ hist.writeCalls = 1 => Fingerprinted = Listed
    /\ hist.reconcileRan => hist.writeCalls = 1

\* C14 (amended): identities are classified, and replayed ones written, one
\* by one in the planning loop, each replay write in the turn that classifies
\* its identity and before the transform's write is called; the transform's
\* write is called once every identity has been planned; the read-back runs
\* after the transform's write returned; the cache changes only in the loop
\* and in the read-back; a pass begins only when none is running.
C14_PhaseOrder ==
    [][ /\ (hist'.replayed # hist.replayed /\ hist'.replayed # Empty)
           => /\ pc = "plan" /\ hist.writeCalls = 0
              /\ DOMAIN hist'.replayed = DOMAIN hist.replayed \cup {filepath}
              /\ filepath \notin Fingerprinted
        /\ (hist'.seen # hist.seen /\ hist'.seen # Empty)
           => pc = "plan" /\ hist.writeCalls = 0
        /\ hist'.writeCalls > hist.writeCalls
           => pc = "invoke" /\ hist.writeCalls = 0 /\ Fingerprinted = Listed
        /\ (hist'.reconcileRan /\ ~hist.reconcileRan)
           => pc = "reconcile" /\ hist.writeCalls = 1
        /\ cache' # cache => pc \in {"plan", "reconcile"}
        /\ used'.passes # used.passes => pc = "idle" ]_vars

C14_Witness ==
    /\ Succeeded /\ hist.reconcileRan
    /\ hist.replayed # Empty /\ hist.recompute # {}
    /\ inputList[1] \in hist.replay

\* C15: once the transform's write has returned, the pass ends without error,
\* and every recomputed identity has as cached content the file the transform
\* wrote for it, or its earlier content when the transform wrote none.
C15_Reconciliation ==
    (pc = "idle" /\ hist.writeCalls = 1 /\ result # "TransformError")
    => /\ result = "ok"
       /\ \A fp \in hist.recompute :
            cache[fp].content =
              IF fp \in DOMAIN hist.produced THEN hist.produced[fp]
              ELSE IF fp \in DOMAIN hist.cache0 THEN hist.cache0[fp].content
              ELSE Absent

\* C16: every identity fingerprinted in a pass has an entry holding that
\* fingerprint, from its turn of the loop to the end of the pass, also when
\* the file changes meanwhile; when the transform's write is called this is
\* so for every listed identity.
C16_FingerprintBeforeInvoke ==
    /\ \A fp \in Fingerprinted :
         fp \in DOMAIN cache /\ cache[fp].hash = hist.seen[fp]
    /\ (pc = "invoke" \/ hist.writeCalls = 1)
       => \A fp \in Listed : fp \in DOMAIN cache /\ cache[fp].hash = hist.seen[fp]

C16_Witness ==
    /\ pc = "invoke"
    /\ \E fp \in Listed :
         /\ exists[FileOf(fp)] /\ stat[FileOf(fp)] # hist.seen[fp]
         /\ cache[fp].hash = hist.seen[fp]

ContentBefore(fp) ==
    IF fp \in DOMAIN hist.cache0 THEN hist.cache0[fp].content ELSE Absent

\* C17: an entry's content differs from what it was when the pass began only
\* after the read-back of a pass whose transform's write returned, and only
\* for an identity of that pass's recompute set.
C17_ContentFrame ==
    \A fp \in DOMAIN cache :
      cache[fp].content # ContentBefore(fp)
      => /\ hist.reconcileRan /\ hist.writeCalls = 1
         /\ fp \in hist.recompute

Untouched == hist.calm >= 1

C19_ReconcilerKeys ==
    /\ pc = "reconcile"
       => \A p \in Range(multiGlob(stage.inputFiles, destTree).paths) :
            p \in DOMAIN cache /\ destPath(p) \in DOMAIN dest
    /\ result \notin {"CacheTypeError", "ReadENOENT"}

====
